---- MODULE Spec2Model ----
(***************************************************************************)
(* Record validation of fruviad/combine:                                   *)
(*   core/spark/record_validation.py   ValidationScenarioSpark             *)
(* One run of run_record_validation_scenarios over a partitioned record    *)
(* set, with the two validators (_sch_validation, _python_validation) as   *)
(* operators and the Spark actions (isEmpty, write.jdbc) that evaluate     *)
(* the lazy RDD they return.                                               *)
(***************************************************************************)
EXTENDS Integers, Sequences, FiniteSets, TLC

\* Bounds of the model: records in the DataFrame, scenario ids in one run.
MaxRecords == 2
MaxScenarios == 2

-----------------------------------------------------------------------------
(* Python values, as far as the validators look at them.                   *)

PyBool(b) == [t |-> "bool", n |-> IF b THEN 1 ELSE 0, s |-> ""]
PyTrue == PyBool(TRUE)
PyFalse == PyBool(FALSE)
PyInt(i) == [t |-> "int", n |-> i, s |-> ""]
PyNone == [t |-> "NoneType", n |-> 0, s |-> ""]
PyStr(str) == [t |-> "str", n |-> 0, s |-> str]

\* Python's ==: bool is a subclass of int, so True == 1 and False == 0.
PyEq(a, b) ==
    IF a.t \in {"bool", "int"} /\ b.t \in {"bool", "int"}
    THEN a.n = b.n
    ELSE a = b

\* Python's != as used in `test_result != True`, `test_result != False`.
PyNe(a, b) == ~PyEq(a, b)

\* json.dumps of one value of the failed list.
JsonValue(v) ==
    CASE v.t = "str" -> [j |-> "string", n |-> 0, s |-> v.s]
      [] v.t = "int" -> [j |-> "number", n |-> v.n, s |-> ""]
      [] v.t = "bool" -> [j |-> IF v.n = 1 THEN "true" ELSE "false", n |-> 0, s |-> ""]
      [] v.t = "NoneType" -> [j |-> "null", n |-> 0, s |-> ""]

\* json.dumps(results_dict)
JsonDumps(results_dict) ==
    [fail_count |-> results_dict.fail_count,
     failed |-> [i \in DOMAIN results_dict.failed |-> JsonValue(results_dict.failed[i])]]

-----------------------------------------------------------------------------
(* Records.                                                                *)

\* Document payloads: valid, violating assertion B, violating A and B, not XML.
Docs == {"<ok/>", "<half/>", "<bad/>", "<<<"}

\* etree.fromstring(row.document.encode('utf-8')) succeeds
XmlParses(document) == document # "<<<"

\* A row of records_df
MkRow(i, doc) == [id |-> i, document |-> doc]

\* records_df.rdd for the records 1..n with the documents docs, kept in input
\* order: one partition (k >= n or n = 0) or two (the first k rows, the rest).
Partitioned(docs, k) ==
    LET n == Len(docs)
        rows == [i \in 1..n |-> MkRow(i, docs[i])]
    IN IF n = 0 \/ k >= n THEN << rows >>
       ELSE << SubSeq(rows, 1, k), SubSeq(rows, k + 1, n) >>

\* The record sets a run may be given.
RecordSets ==
    { Partitioned(docs, k) :
        docs \in UNION { [1..n -> Docs] : n \in 0..MaxRecords },
        k \in 1..MaxRecords }

\* All rows of a partitioned record set, in input order.
RECURSIVE AllRows(_)
AllRows(parts) ==
    IF parts = << >> THEN << >> ELSE Head(parts) \o AllRows(Tail(parts))

-----------------------------------------------------------------------------
(* Rule documents and the schematron validator (lxml).                     *)

NoExc == "none"

\* One assertion of a rule document: its message and the documents failing it.
Assertion(text, fails_on) == [text |-> text, fails_on |-> fails_on]

\* The files at the scenarios' vs_filepath.
Files ==
    [path \in {"/sch/rules.sch", "/sch/broken.sch"} |->
        IF path = "/sch/rules.sch"
        THEN [wellformed |-> TRUE,
              asserts |-> << Assertion("A", {"<bad/>"}),
                             Assertion("B", {"<bad/>", "<half/>"}) >>]
        ELSE [wellformed |-> FALSE, asserts |-> << >>]]

\* isoschematron.Schematron(sct_doc, store_report=True)
Schematron(sct_doc) ==
    [asserts |-> sct_doc.asserts, validation_report |-> << >>]

\* Validate with the report of a document added to the stored one (a fault C9
\* has to exclude).
ValidateKeepsReport(validator, document) ==
    LET report == validator.validation_report \o
                  SelectSeq(validator.asserts, LAMBDA a : document \in a.fails_on)
    IN [is_valid |-> report = << >>,
        validator |-> [validator EXCEPT !.validation_report = report]]

\* validator.validate(record_xml): the report of this document replaces the
\* stored one; valid iff the report holds no failed-assert.
Validate(validator, document) ==
    LET report == SelectSeq(validator.asserts, LAMBDA a : document \in a.fails_on)
    IN [is_valid |-> report = << >>,
        validator |-> [validator EXCEPT !.validation_report = report]]

\* Row(record_id, validation_scenario_id, valid, results_payload, fail_count)
Row(row, vs_id, results_dict) ==
    [record_id |-> row.id,
     validation_scenario_id |-> vs_id,
     valid |-> 0,
     results_payload |-> JsonDumps(results_dict),
     fail_count |-> results_dict.fail_count]

\* SchFailRow with the messages taken from the report's end to its start (a
\* fault C17 has to exclude).
SchFailRowReversed(row, vs_id, validator) ==
    LET fails == validator.validation_report
        results_dict ==
            [fail_count |-> Len(fails),
             failed |-> [i \in DOMAIN fails |-> PyStr(fails[Len(fails) + 1 - i].text)]]
    IN Row(row, vs_id, results_dict)

\* The body of `if not is_valid:` for one row.
SchFailRow(row, vs_id, validator) ==
    LET fails == validator.validation_report
        results_dict ==
            [fail_count |-> Len(fails),
             failed |-> [i \in DOMAIN fails |-> PyStr(fails[i].text)]]
    IN Row(row, vs_id, results_dict)

\* SchLoop with each row emitted behind those of the records after it (a
\* fault C16 has to exclude).
RECURSIVE SchLoopReversed(_, _, _)
SchLoopReversed(vs_id, validator, pt) ==
    IF pt = << >> THEN [rows |-> << >>, exc |-> NoExc, log |-> << >>]
    ELSE LET row == Head(pt)
         IN IF ~XmlParses(row.document)
            THEN [rows |-> << >>, exc |-> "XMLSyntaxError", log |-> << "row" >>]
            ELSE LET v == Validate(validator, row.document)
                     rest == SchLoopReversed(vs_id, v.validator, Tail(pt))
                 IN [rows |-> IF v.is_valid THEN rest.rows
                              ELSE rest.rows \o << SchFailRow(row, vs_id, v.validator) >>,
                     exc |-> rest.exc,
                     log |-> << "row" >> \o rest.log]

\* SchLoop with the rule document parsed and the validator constructed anew
\* for each row (a fault C22 has to exclude).
RECURSIVE SchLoopRebuilding(_, _, _)
SchLoopRebuilding(vs_id, validator, pt) ==
    IF pt = << >> THEN [rows |-> << >>, exc |-> NoExc, log |-> << >>]
    ELSE LET row == Head(pt)
             fresh == Schematron([wellformed |-> TRUE, asserts |-> validator.asserts])
         IN IF ~XmlParses(row.document)
            THEN [rows |-> << >>, exc |-> "XMLSyntaxError",
                  log |-> << "row", "parse", "Schematron" >>]
            ELSE LET v == Validate(fresh, row.document)
                     rest == SchLoopRebuilding(vs_id, v.validator, Tail(pt))
                 IN [rows |-> IF v.is_valid THEN rest.rows
                              ELSE << SchFailRow(row, vs_id, v.validator) >> \o rest.rows,
                     exc |-> rest.exc,
                     log |-> << "row", "parse", "Schematron" >> \o rest.log]

\* `for row in pt:` of validate_schematron_pt_udf: the rows the generator
\* yields, in order, the exception that ends it, if one does, and the log of
\* what it did: "row" for each row it took from the partition.
RECURSIVE SchLoop(_, _, _)
SchLoop(vs_id, validator, pt) ==
    IF pt = << >> THEN [rows |-> << >>, exc |-> NoExc, log |-> << >>]
    ELSE LET row == Head(pt)
         IN IF ~XmlParses(row.document)
            THEN [rows |-> << >>, exc |-> "XMLSyntaxError", log |-> << "row" >>]
            ELSE LET v == Validate(validator, row.document)
                     rest == SchLoop(vs_id, v.validator, Tail(pt))
                 IN [rows |-> IF v.is_valid THEN rest.rows
                              ELSE << SchFailRow(row, vs_id, v.validator) >> \o rest.rows,
                     exc |-> rest.exc,
                     log |-> << "row" >> \o rest.log]

\* validate_schematron_pt_udf(pt): etree.parse(vs_filepath) ("parse") and
\* isoschematron.Schematron(...) ("Schematron") stand before the loop.
ValidateSchematronPtUdf(vs_id, vs_filepath, pt) ==
    IF ~Files[vs_filepath].wellformed
    THEN [rows |-> << >>, exc |-> "XMLSyntaxError", log |-> << "parse" >>]
    ELSE LET loop == SchLoop(vs_id, Schematron(Files[vs_filepath]), pt)
         IN [rows |-> loop.rows, exc |-> loop.exc,
             log |-> << "parse", "Schematron" >> \o loop.log]

-----------------------------------------------------------------------------
(* Procedural payloads: what exec(vs.payload) leaves in temp_pyvs.         *)

\* What a call of a user function does: return a value or raise Exception(text).
Return(v) == [raised |-> FALSE, value |-> v, text |-> ""]
Raise(text) == [raised |-> TRUE, value |-> PyNone, text |-> text]

\* def name(record, test_message=t_msg): on the documents of `on` it does
\* `outcome`, on every other document it returns True.
Def(name, t_msg, on, outcome) ==
    [name |-> name, isfunction |-> TRUE, has_msg |-> TRUE, t_msg |-> PyStr(t_msg),
     on |-> on, outcome |-> outcome]

\* def name(record): a function that declares no test_message parameter.
DefNoMsg(name, on, outcome) ==
    [name |-> name, isfunction |-> TRUE, has_msg |-> FALSE, t_msg |-> PyNone,
     on |-> on, outcome |-> outcome]

\* name = <a value>: a module attribute that is no function.
Attr(name) ==
    [name |-> name, isfunction |-> FALSE, has_msg |-> FALSE, t_msg |-> PyNone,
     on |-> {}, outcome |-> Return(PyNone)]

\* Payloads, members in the order the source text defines them.
MixedPayload ==
    [loadable |-> TRUE,
     members |-> << Def("test_b_title", "record has a title", {"<half/>", "<bad/>"},
                        Return(PyStr("missing title"))),
                    Def("TEST_upper", "upper check failed", {"<bad/>"}, Return(PyFalse)),
                    Def("helper", "not a check", Docs, Raise("helper called")),
                    Def("attest", "not a check either", Docs, Raise("attest called")),
                    Def("test_a_raise", "record is readable", {"<half/>", "<bad/>"},
                        Raise("boom")),
                    Def("test_c_one", "returned one", {"<bad/>"}, Return(PyInt(1))),
                    Def("test_d_zero", "returned zero", {"<bad/>"}, Return(PyInt(0))),
                    Def("test_e_none", "returned none", {"<bad/>"}, Return(PyNone)),
                    Attr("test_var") >>]

\* simple_validation_payload of the view tests
PassingPayload ==
    [loadable |-> TRUE,
     members |-> << Def("test_record_has_words", "record has words", {}, Return(PyTrue)) >>]

NoParamPayload ==
    [loadable |-> TRUE,
     members |-> << Def("test_a_raise", "record is readable", {"<bad/>"}, Raise("boom")),
                    DefNoMsg("test_b_noparam", {"<bad/>"}, Return(PyFalse)) >>]

NoChecksPayload ==
    [loadable |-> TRUE,
     members |-> << Def("helper", "not a check", Docs, Raise("helper called")),
                    Attr("test_var") >>]

\* 'Some python code' of the view tests: exec raises SyntaxError
UnloadablePayload == [loadable |-> FALSE, members |-> << >>]

NoPayload == [loadable |-> FALSE, members |-> << >>]

\* The names a module of the model can hold, in the order sorted() gives
\* (code points: upper case, then '_', then lower case).
SortedNames ==
    << "TEST_upper", "__builtins__", "__doc__", "__name__", "attest", "helper",
       "test_a_raise", "test_b_noparam", "test_b_title", "test_c_one",
       "test_d_zero", "test_e_none", "test_record_has_words", "test_var" >>

\* The attributes a fresh ModuleType('temp_pyvs') has before exec.
ModuleAttrs == {"__builtins__", "__doc__", "__name__"}

\* exec(vs.payload, temp_pyvs.__dict__): the module's namespace
Exec(payload) ==
    LET defined == { payload.members[i].name : i \in DOMAIN payload.members }
    IN [nm \in ModuleAttrs \cup defined |->
          IF nm \in defined
          THEN LET i == CHOOSE k \in DOMAIN payload.members :
                            payload.members[k].name = nm
               IN payload.members[i]
          ELSE Attr(nm)]

\* dir(temp_pyvs): the attribute names, sorted
Dir(module) == SelectSeq(SortedNames, LAMBDA nm : nm \in DOMAIN module)

UpperCase == "ABCDEFGHIJKLMNOPQRSTUVWXYZ"
LowerCase == "abcdefghijklmnopqrstuvwxyz"

\* str.lower() of one character
LowerChar(c) ==
    IF \E i \in 1..Len(UpperCase) : SubSeq(UpperCase, i, i) = c
    THEN LET i == CHOOSE k \in 1..Len(UpperCase) : SubSeq(UpperCase, k, k) = c
         IN SubSeq(LowerCase, i, i)
    ELSE c

\* attr.lower()
RECURSIVE Lower(_)
Lower(str) ==
    IF Len(str) = 0 THEN ""
    ELSE LowerChar(SubSeq(str, 1, 1)) \o Lower(SubSeq(str, 2, Len(str)))

\* str.startswith(prefix)
StartsWith(str, prefix) ==
    Len(str) >= Len(prefix) /\ SubSeq(str, 1, Len(prefix)) = prefix

\* PyvsFuncs with the names compared as they are written (a fault C19 has to
\* exclude).
PyvsFuncsCaseSensitive(module) ==
    LET test_labeled_attrs == SelectSeq(Dir(module), LAMBDA nm : StartsWith(nm, "test"))
        functions == SelectSeq(test_labeled_attrs, LAMBDA nm : module[nm].isfunction)
    IN [i \in DOMAIN functions |-> module[functions[i]]]

\* pyvs_funcs: the functions among the attributes whose lower-cased name
\* starts with 'test', in dir() order.
PyvsFuncs(module) ==
    LET test_labeled_attrs == SelectSeq(Dir(module), LAMBDA nm : StartsWith(Lower(nm), "test"))
        functions == SelectSeq(test_labeled_attrs, LAMBDA nm : module[nm].isfunction)
    IN [i \in DOMAIN functions |-> module[functions[i]]]

-----------------------------------------------------------------------------
(* validate_python_udf                                                     *)

\* PythonUDFRecord(row): the wrapper handed to the checks
PythonUDFRecord(row) == [record_id |-> row.id, document |-> row.document]

\* func(prvb)
Call(func, prvb) ==
    IF prvb.document \in func.on THEN func.outcome ELSE Return(PyTrue)

\* "test '%s' had exception: %s" % (func_name, str(e))
ExceptionMessage(func_name, e) ==
    "test '" \o func_name \o "' had exception: " \o e

\* Failed with the failure counted and its message left out of the list (a
\* fault C20 has to exclude).
FailedUnlisted(results_dict, message) ==
    [fail_count |-> results_dict.fail_count + 1,
     failed |-> results_dict.failed]

\* Failed with the message put in front of the list (a fault C6 has to exclude).
FailedInFront(results_dict, message) ==
    [fail_count |-> results_dict.fail_count + 1,
     failed |-> << message >> \o results_dict.failed]

\* results_dict after one more failure
Failed(results_dict, message) ==
    [fail_count |-> results_dict.fail_count + 1,
     failed |-> Append(results_dict.failed, message)]

\* CheckStep with the call outside the try: the exception of a check leaves
\* validate_python_udf (a fault C1 has to exclude).
CheckStepNoTry(func, prvb, results_dict) ==
    IF ~func.has_msg
    THEN [exc |-> "KeyError", results_dict |-> results_dict]
    ELSE LET t_msg == func.t_msg
             call == Call(func, prvb)
             test_result == call.value
         IN IF call.raised
            THEN [exc |-> "Exception", results_dict |-> results_dict]
            ELSE [exc |-> NoExc,
                  results_dict |->
                     IF PyNe(test_result, PyTrue)
                     THEN IF PyNe(test_result, PyFalse)
                          THEN [fail_count |-> results_dict.fail_count + 1,
                                failed |-> Append(results_dict.failed, test_result)]
                          ELSE [fail_count |-> results_dict.fail_count + 1,
                                failed |-> Append(results_dict.failed, t_msg)]
                     ELSE results_dict]

\* One turn of `for func in pyvs_funcs:`. The lookup of the test_message
\* default stands before the try; the call and the comparisons are inside it.
CheckStep(func, prvb, results_dict) ==
    IF ~func.has_msg
    THEN [exc |-> "KeyError", results_dict |-> results_dict]
    ELSE LET t_msg == func.t_msg
             call == Call(func, prvb)
             test_result == call.value
         IN [exc |-> NoExc,
             results_dict |->
                IF call.raised
                THEN Failed(results_dict, PyStr(ExceptionMessage(func.name, call.text)))
                ELSE IF PyNe(test_result, PyTrue)
                     THEN IF PyNe(test_result, PyFalse)
                          THEN Failed(results_dict, test_result)
                          ELSE Failed(results_dict, t_msg)
                     ELSE results_dict]

\* `for func in pyvs_funcs:` from the i-th function on
RECURSIVE ForFuncs(_, _, _, _)
ForFuncs(pyvs_funcs, i, prvb, results_dict) ==
    IF i > Len(pyvs_funcs) THEN [exc |-> NoExc, results_dict |-> results_dict]
    ELSE LET step == CheckStep(pyvs_funcs[i], prvb, results_dict)
         IN IF step.exc # NoExc THEN step
            ELSE ForFuncs(pyvs_funcs, i + 1, prvb, step.results_dict)

\* ValidatePythonUdf without `if results_dict['fail_count'] > 0` (a fault C5
\* has to exclude).
ValidatePythonUdfAlways(vs_id, pyvs_funcs, row) ==
    LET prvb == PythonUDFRecord(row)
        loop == ForFuncs(pyvs_funcs, 1, prvb, [fail_count |-> 0, failed |-> << >>])
    IN IF loop.exc # NoExc THEN [exc |-> loop.exc, value |-> PyNone]
       ELSE [exc |-> NoExc, value |-> Row(row, vs_id, loop.results_dict)]

\* validate_python_udf(vs_id, pyvs_funcs, row): a Row, None, or an exception
ValidatePythonUdf(vs_id, pyvs_funcs, row) ==
    LET prvb == PythonUDFRecord(row)
        loop == ForFuncs(pyvs_funcs, 1, prvb, [fail_count |-> 0, failed |-> << >>])
    IN IF loop.exc # NoExc THEN [exc |-> loop.exc, value |-> PyNone]
       ELSE IF loop.results_dict.fail_count > 0
            THEN [exc |-> NoExc, value |-> Row(row, vs_id, loop.results_dict)]
            ELSE [exc |-> NoExc, value |-> PyNone]

\* .map(lambda row: validate_python_udf(...)).filter(lambda row: row is not None)
\* over one partition: the rows it yields and the exception that ends it.
RECURSIVE MapFilter(_, _, _)
MapFilter(vs_id, pyvs_funcs, pt) ==
    IF pt = << >> THEN [rows |-> << >>, exc |-> NoExc]
    ELSE LET r == ValidatePythonUdf(vs_id, pyvs_funcs, Head(pt))
         IN IF r.exc # NoExc THEN [rows |-> << >>, exc |-> r.exc]
            ELSE LET rest == MapFilter(vs_id, pyvs_funcs, Tail(pt))
                 IN IF r.value # PyNone
                    THEN [rows |-> << r.value >> \o rest.rows, exc |-> rest.exc]
                    ELSE rest

-----------------------------------------------------------------------------
(* The lazy RDD a validator returns, and the Spark actions on it.          *)

\* validation_fails_rdd before its first assignment
Unbound == [op |-> "unbound", vs_id |-> 0, vs_filepath |-> "", pyvs_funcs |-> << >>]

\* records_df.rdd.mapPartitions(validate_schematron_pt_udf).filter(...)
SchRdd(vs_id, vs_filepath) ==
    [op |-> "sch", vs_id |-> vs_id, vs_filepath |-> vs_filepath, pyvs_funcs |-> << >>]

\* records_df.rdd.map(...).filter(...)
PythonRdd(vs_id, pyvs_funcs) ==
    [op |-> "python", vs_id |-> vs_id, vs_filepath |-> "", pyvs_funcs |-> pyvs_funcs]

\* One task: the RDD's function over one partition.
Compute(rdd, pt) ==
    IF rdd.op = "sch"
    THEN ValidateSchematronPtUdf(rdd.vs_id, rdd.vs_filepath, pt)
    ELSE MapFilter(rdd.vs_id, rdd.pyvs_funcs, pt)

\* rdd.isEmpty(): take(1) reads the partitions in order and each only up to
\* its first row, so an exception behind a first row is not met here.
RECURSIVE IsEmpty(_, _)
IsEmpty(rdd, parts) ==
    IF parts = << >> THEN [exc |-> NoExc, empty |-> TRUE]
    ELSE LET task == Compute(rdd, Head(parts))
         IN IF task.rows # << >> THEN [exc |-> NoExc, empty |-> FALSE]
            ELSE IF task.exc # NoExc THEN [exc |-> task.exc, empty |-> TRUE]
            ELSE IsEmpty(rdd, Tail(parts))

\* The tasks of a full evaluation, one per partition.
Tasks(rdd, parts) == [p \in DOMAIN parts |-> Compute(rdd, parts[p])]

\* The rows of the tasks chosen, in partition order.
RECURSIVE RowsOf(_, _, _)
RowsOf(tasks, chosen, p) ==
    IF p > Len(tasks) THEN << >>
    ELSE (IF p \in chosen THEN tasks[p].rows ELSE << >>) \o RowsOf(tasks, chosen, p + 1)

-----------------------------------------------------------------------------
(* The scenarios stored (ValidationScenario.objects).                      *)

Scenario(id, name, validation_type, payload, filepath) ==
    [id |-> id, name |-> name, validation_type |-> validation_type,
     payload |-> payload, filepath |-> filepath]

ValidationScenarios ==
    { Scenario(1, "rules", "sch", NoPayload, "/sch/rules.sch"),
      Scenario(2, "broken rules", "sch", NoPayload, "/sch/broken.sch"),
      Scenario(3, "mixed checks", "python", MixedPayload, ""),
      Scenario(4, "Test Validate", "python", PassingPayload, ""),
      Scenario(5, "no test_message", "python", NoParamPayload, ""),
      Scenario(6, "Test Validate", "python", UnloadablePayload, ""),
      Scenario(7, "no checks", "python", NoChecksPayload, ""),
      Scenario(8, "other kind", "xsd", NoPayload, "") }

\* The ids a run may ask for: those stored, and one that is not.
RequestIds == { s.id : s \in ValidationScenarios } \cup {9}

NoScenario == Scenario(0, "", "", NoPayload, "")

\* What the table core_recordvalidation may hold when a run begins: nothing,
\* or the batch an earlier run has appended (iteration 0).
EarlierTables ==
    { << >>,
      << [iteration |-> 0,
          rows |-> << SchFailRow(MkRow(1, "<half/>"), 1,
                                 Validate(Schematron(Files["/sch/rules.sch"]),
                                          "<half/>").validator) >>,
          complete |-> TRUE] >> }

-----------------------------------------------------------------------------
(* run_record_validation_scenarios                                         *)

VARIABLES
    pc,                    \* where the run stands
    records_df,            \* self.records_df.rdd: a sequence of partitions
    validation_scenarios,  \* the ids of self.validation_scenarios iterated so far
    vs,                    \* the scenario of the current iteration
    validation_fails_rdd,  \* the local of that name
    core_recordvalidation, \* the table: the batches written, in order
    exception,             \* the exception the run raised to its caller
    refreshes              \* calls of refresh_django_db_connection

\* The Livy side of the application (src/core/models.py), which the run above
\* leaves alone.
VARIABLES
    core_livysession,      \* the table of LivySession rows, the row id its place
    livy_server,           \* the Livy server: the state of each session it has
    deleted,               \* the session ids a DELETE request was sent for
    user_session,          \* self.user_session of the CombineJob
    statement,             \* the state of the statement count_records submitted
    livy_pc,               \* where count_records stands
    polls,                 \* GET requests of the polling loop since the state is final
    last_op                \* the handler that ran last, and for whom

run_vars == << pc, records_df, validation_scenarios, vs, validation_fails_rdd,
               core_recordvalidation, exception, refreshes >>

livy_vars == << core_livysession, livy_server, deleted, user_session, statement,
                livy_pc, polls, last_op >>

vars == << run_vars, livy_vars >>

\* No CombineJob made yet.
NoJob == [kind |-> "no CombineJob", row |-> 0]

\* No handler has run.
NoOp == [op |-> "none", user |-> "", created |-> FALSE]

\* The Livy side before anything has happened on it.
LivyIdle ==
    /\ core_livysession = << >>
    /\ livy_server = << >>
    /\ deleted = {}
    /\ user_session = NoJob
    /\ statement = "none"
    /\ livy_pc = "idle"
    /\ polls = 0
    /\ last_op = NoOp

Init ==
    /\ pc = "start"
    /\ records_df \in RecordSets
    /\ validation_scenarios = << >>
    /\ vs = NoScenario
    /\ validation_fails_rdd = Unbound
    /\ core_recordvalidation \in EarlierTables
    /\ exception = NoExc
    /\ refreshes = 0
    /\ LivyIdle

\* refresh_django_db_connection(), before the loop
Refresh ==
    /\ pc = "start"
    /\ refreshes' = refreshes + 1
    /\ pc' = "for"
    /\ UNCHANGED << records_df, validation_scenarios, vs, validation_fails_rdd,
                    core_recordvalidation, exception >>
    /\ UNCHANGED livy_vars

\* for vs_id in self.validation_scenarios: the next id
ForNext ==
    /\ pc = "for"
    /\ Len(validation_scenarios) < MaxScenarios
    /\ \E vs_id \in RequestIds :
          validation_scenarios' = Append(validation_scenarios, vs_id)
    /\ pc' = "get"
    /\ UNCHANGED << records_df, vs, validation_fails_rdd, core_recordvalidation,
                    exception, refreshes >>
    /\ UNCHANGED livy_vars

\* the list is exhausted: the run returns
ForEnd ==
    /\ pc = "for"
    /\ pc' = "returned"
    /\ UNCHANGED << records_df, validation_scenarios, vs, validation_fails_rdd,
                    core_recordvalidation, exception, refreshes >>
    /\ UNCHANGED livy_vars

\* vs = ValidationScenario.objects.get(pk=vs_id)
GetScenario ==
    /\ pc = "get"
    /\ LET vs_id == validation_scenarios[Len(validation_scenarios)]
       IN IF \E s \in ValidationScenarios : s.id = vs_id
          THEN /\ vs' = CHOOSE s \in ValidationScenarios : s.id = vs_id
               /\ pc' = "branch"
               /\ UNCHANGED exception
          ELSE /\ exception' = "DoesNotExist"
               /\ pc' = "raised"
               /\ UNCHANGED vs
    /\ UNCHANGED << records_df, validation_scenarios, validation_fails_rdd,
                    core_recordvalidation, refreshes >>
    /\ UNCHANGED livy_vars

\* if vs.validation_type == 'sch': self._sch_validation(vs, vs_id, vs_filepath)
SchValidation ==
    /\ pc = "branch"
    /\ vs.validation_type = "sch"
    /\ validation_fails_rdd' = SchRdd(vs.id, vs.filepath)
    /\ pc' = "isEmpty"
    /\ UNCHANGED << records_df, validation_scenarios, vs, core_recordvalidation,
                    exception, refreshes >>
    /\ UNCHANGED livy_vars

\* elif vs.validation_type == 'python': self._python_validation(...)
PythonValidation ==
    /\ pc = "branch"
    /\ vs.validation_type = "python"
    /\ IF vs.payload.loadable
       THEN /\ validation_fails_rdd' = PythonRdd(vs.id, PyvsFuncs(Exec(vs.payload)))
            /\ pc' = "isEmpty"
            /\ UNCHANGED exception
       ELSE /\ exception' = "SyntaxError"
            /\ pc' = "raised"
            /\ UNCHANGED validation_fails_rdd
    /\ UNCHANGED << records_df, validation_scenarios, vs, core_recordvalidation,
                    refreshes >>
    /\ UNCHANGED livy_vars

\* neither branch is taken: validation_fails_rdd keeps what it had
NeitherValidation ==
    /\ pc = "branch"
    /\ vs.validation_type \notin {"sch", "python"}
    /\ pc' = "isEmpty"
    /\ UNCHANGED << records_df, validation_scenarios, vs, validation_fails_rdd,
                    core_recordvalidation, exception, refreshes >>
    /\ UNCHANGED livy_vars

\* TestIsEmpty with the write following whatever isEmpty() says (a fault C10
\* has to exclude).
TestIsEmptyIgnored ==
    /\ pc = "isEmpty"
    /\ IF validation_fails_rdd = Unbound
       THEN /\ exception' = "UnboundLocalError"
            /\ pc' = "raised"
       ELSE LET job == IsEmpty(validation_fails_rdd, records_df)
            IN IF job.exc # NoExc
               THEN /\ exception' = job.exc
                    /\ pc' = "raised"
               ELSE /\ pc' = "write"
                    /\ UNCHANGED exception
    /\ UNCHANGED << records_df, validation_scenarios, vs, validation_fails_rdd,
                    core_recordvalidation, refreshes >>
    /\ UNCHANGED livy_vars

\* if not validation_fails_rdd.isEmpty():
TestIsEmpty ==
    /\ pc = "isEmpty"
    /\ IF validation_fails_rdd = Unbound
       THEN /\ exception' = "UnboundLocalError"
            /\ pc' = "raised"
       ELSE LET job == IsEmpty(validation_fails_rdd, records_df)
            IN IF job.exc # NoExc
               THEN /\ exception' = job.exc
                    /\ pc' = "raised"
               ELSE /\ pc' = IF job.empty THEN "for" ELSE "write"
                    /\ UNCHANGED exception
    /\ UNCHANGED << records_df, validation_scenarios, vs, validation_fails_rdd,
                    core_recordvalidation, refreshes >>
    /\ UNCHANGED livy_vars

\* A batch of the table: the rows one write appended, and in which iteration.
Batch(rows, complete) ==
    [iteration |-> Len(validation_scenarios), rows |-> rows, complete |-> complete]

\* The exception of write.jdbc when the table refuses a partition.
SinkError == "Py4JJavaError"

\* The exceptions a failing write can raise: that of a task, and at any time
\* that of the table.
WriteErrors(tasks) ==
    { tasks[p].exc : p \in { q \in DOMAIN tasks : tasks[q].exc # NoExc } } \cup {SinkError}

\* The table after a write that failed with these partitions written.
Partial(tasks, committed) ==
    IF RowsOf(tasks, committed, 1) = << >>
    THEN core_recordvalidation
    ELSE Append(core_recordvalidation, Batch(RowsOf(tasks, committed, 1), FALSE))

\* WriteJdbc with the rows put in place of those the table holds, as
\* mode='overwrite' does (a fault C15 has to exclude).
WriteJdbcOverwrite ==
    /\ pc = "write"
    /\ LET tasks == Tasks(validation_fails_rdd, records_df)
           done == { p \in DOMAIN tasks : tasks[p].exc = NoExc }
       IN \/ /\ done = DOMAIN tasks
             /\ core_recordvalidation' = << Batch(RowsOf(tasks, done, 1), TRUE) >>
             /\ pc' = "for"
             /\ UNCHANGED exception
          \/ /\ \E committed \in (SUBSET done) \ {DOMAIN tasks} :
                    core_recordvalidation' = << Batch(RowsOf(tasks, committed, 1), FALSE) >>
             /\ exception' \in WriteErrors(tasks)
             /\ pc' = "raised"
    /\ UNCHANGED << records_df, validation_scenarios, vs, validation_fails_rdd,
                    refreshes >>
    /\ UNCHANGED livy_vars

\* WriteJdbc with a failed write tried again (a fault C14 has to exclude).
WriteJdbcRetried ==
    /\ pc = "write"
    /\ LET tasks == Tasks(validation_fails_rdd, records_df)
           done == { p \in DOMAIN tasks : tasks[p].exc = NoExc }
       IN \/ /\ done = DOMAIN tasks
             /\ core_recordvalidation' =
                    Append(core_recordvalidation, Batch(RowsOf(tasks, done, 1), TRUE))
             /\ pc' = "for"
             /\ UNCHANGED exception
          \/ /\ \E committed \in (SUBSET done) \ {DOMAIN tasks} :
                    core_recordvalidation' = Partial(tasks, committed)
             /\ pc' = "write"
             /\ UNCHANGED exception
    /\ UNCHANGED << records_df, validation_scenarios, vs, validation_fails_rdd,
                    refreshes >>
    /\ UNCHANGED livy_vars

\* validation_fails_rdd.toDF().write.jdbc(..., mode='append'): every partition
\* is computed and written, once. The write succeeds when every task does and
\* the table takes every partition. Otherwise the job fails: a task raised,
\* or the table refused a partition; the partitions already written stay
\* written, and the exception leaves the run.
WriteJdbc ==
    /\ pc = "write"
    /\ LET tasks == Tasks(validation_fails_rdd, records_df)
           done == { p \in DOMAIN tasks : tasks[p].exc = NoExc }
       IN \/ /\ done = DOMAIN tasks
             /\ core_recordvalidation' =
                    Append(core_recordvalidation, Batch(RowsOf(tasks, done, 1), TRUE))
             /\ pc' = "for"
             /\ UNCHANGED exception
          \/ /\ \E committed \in (SUBSET done) \ {DOMAIN tasks} :
                    core_recordvalidation' = Partial(tasks, committed)
             /\ exception' \in WriteErrors(tasks)
             /\ pc' = "raised"
    /\ UNCHANGED << records_df, validation_scenarios, vs, validation_fails_rdd,
                    refreshes >>
    /\ UNCHANGED livy_vars

Next ==
    \/ Refresh
    \/ ForNext
    \/ ForEnd
    \/ GetScenario
    \/ SchValidation
    \/ PythonValidation
    \/ NeitherValidation
    \/ TestIsEmpty
    \/ WriteJdbc

Spec == Init /\ [][Next]_vars

-----------------------------------------------------------------------------
(* Notions the properties below are stated in.                             *)

ScenarioOf(id) == CHOOSE s \in ValidationScenarios : s.id = id

Stored(id) == \E s \in ValidationScenarios : s.id = id

\* The document of the record with this id (ids are input positions).
DocOf(record_id) == AllRows(records_df)[record_id].document

RecordIds == DOMAIN AllRows(records_df)

\* The check functions the loaded payload of each scenario yields.
LoadedChecks == [s \in ValidationScenarios |-> PyvsFuncs(Exec(s.payload))]

ChecksOf(s) == LoadedChecks[s]

\* The validator classes the check's result on this document as a failure.
CheckFails(f, doc) ==
    LET call == Call(f, [record_id |-> 0, document |-> doc])
    IN call.raised \/ PyNe(call.value, PyTrue)

\* The check raises on this document.
CheckRaises(f, doc) == Call(f, [record_id |-> 0, document |-> doc]).raised

\* The record has one or more failures under the scenario.
HasFailures(s, doc) ==
    IF s.validation_type = "sch"
    THEN \E k \in DOMAIN Files[s.filepath].asserts : doc \in Files[s.filepath].asserts[k].fails_on
    ELSE \E k \in DOMAIN ChecksOf(s) : CheckFails(ChecksOf(s)[k], doc)

\* The i-th iteration of the loop ran a scenario of one of the two kinds.
OfEitherKind(i) ==
    /\ Stored(validation_scenarios[i])
    /\ ScenarioOf(validation_scenarios[i]).validation_type \in {"sch", "python"}

\* The i-th iteration of the loop has come to its end without an exception.
Completed(i) ==
    /\ i \in DOMAIN validation_scenarios
    /\ \/ i < Len(validation_scenarios)
       \/ pc \in {"for", "returned"}

\* The batches the i-th iteration wrote.
BatchesOf(i) ==
    { b \in DOMAIN core_recordvalidation : core_recordvalidation[b].iteration = i }

\* All rows this run has written so far.
WrittenRows ==
    UNION { { core_recordvalidation[b].rows[k] : k \in DOMAIN core_recordvalidation[b].rows }
            : b \in { c \in DOMAIN core_recordvalidation :
                        core_recordvalidation[c].iteration > 0 } }

Range(seq) == { seq[k] : k \in DOMAIN seq }

\* str holds sub as a contiguous part.
Contains(str, sub) ==
    \E k \in 1..(Len(str) - Len(sub) + 1) : SubSeq(str, k, k + Len(sub) - 1) = sub

-----------------------------------------------------------------------------
(* C1: a check that raises                                                 *)

\* The entries of failed that name this check and carry this error text.
EntriesOfRaise(failed, f) ==
    { k \in DOMAIN failed :
        /\ failed[k].j = "string"
        /\ Contains(failed[k].s, f.name)
        /\ Contains(failed[k].s, f.outcome.text) }

\* What the checks from the i-th on record for this document, run on their own.
RecordedFrom(funcs, i, doc) ==
    LET loop == ForFuncs(funcs, i, [record_id |-> 0, document |-> doc],
                         [fail_count |-> 0, failed |-> << >>])
    IN JsonDumps(loop.results_dict).failed

\* C1: in procedural validation the exception of a check function never leaves
\* the validation of the record (the run never ends with it); in every report
\* written, a check that raised on the record has exactly one entry of failed,
\* which holds the check's name and the error text, and the entries behind it
\* are those the checks after it record, each of them having been run; and
\* every record on which a check raised has its report once the scenario's
\* validation is written.
C1_RaisingCheckIsRecordedAndLoopGoesOn ==
    /\ exception # "Exception"
    /\ \A row \in WrittenRows :
         LET s == ScenarioOf(row.validation_scenario_id)
             funcs == ChecksOf(s)
             doc == DocOf(row.record_id)
             failed == row.results_payload.failed
         IN s.validation_type = "python" =>
              \A i \in DOMAIN funcs :
                 CheckRaises(funcs[i], doc) =>
                    /\ Cardinality(EntriesOfRaise(failed, funcs[i])) = 1
                    /\ LET k == CHOOSE e \in EntriesOfRaise(failed, funcs[i]) : TRUE
                       IN SubSeq(failed, k + 1, Len(failed)) = RecordedFrom(funcs, i + 1, doc)
    /\ \A i \in DOMAIN validation_scenarios :
         (Completed(i) /\ OfEitherKind(i)
            /\ ScenarioOf(validation_scenarios[i]).validation_type = "python") =>
              \A id \in RecordIds :
                 (\E k \in DOMAIN ChecksOf(ScenarioOf(validation_scenarios[i])) :
                      CheckRaises(ChecksOf(ScenarioOf(validation_scenarios[i]))[k], DocOf(id)))
                 => \E b \in BatchesOf(i) :
                       \E row \in Range(core_recordvalidation[b].rows) :
                          /\ row.record_id = id
                          /\ row.validation_scenario_id = validation_scenarios[i]

\* A report is written in which the entry of a check that raised is followed
\* by the entry of a later check.
C1_Witness ==
    \E row \in WrittenRows :
       \E k \in DOMAIN row.results_payload.failed :
          /\ row.results_payload.failed[k].s = "test 'test_a_raise' had exception: boom"
          /\ k < Len(row.results_payload.failed)
          /\ row.results_payload.failed[k + 1].s = "missing title"

-----------------------------------------------------------------------------
(* C2, C3, C4: what a scenario or a record that cannot be used does to the *)
(* run                                                                     *)

\* The scenario of the current iteration does not compile: its procedural
\* source does not load, or its rule document does not parse.
CompileFails ==
    \/ /\ pc = "branch"
       /\ vs.validation_type = "python"
       /\ ~vs.payload.loadable
    \/ /\ pc = "isEmpty"
       /\ vs.validation_type = "sch"
       /\ ~Files[vs.filepath].wellformed

\* C2: when compiling a scenario fails, only that scenario is abandoned: the
\* run raises nothing and goes on to the next requested id.
C2_CompileFailureAbandonsOnlyThatScenario ==
    [][CompileFails => (pc' = "for" /\ exception' = NoExc)]_vars

\* C3: a procedural scenario whose payload yields no check function never
\* comes to the end of its iteration as a run without reports.
C3_NoChecksFailsCompilation ==
    \A i \in DOMAIN validation_scenarios :
       (/\ Stored(validation_scenarios[i])
        /\ ScenarioOf(validation_scenarios[i]).validation_type = "python"
        /\ ScenarioOf(validation_scenarios[i]).payload.loadable
        /\ ChecksOf(ScenarioOf(validation_scenarios[i])) = << >>)
       => ~Completed(i)

\* The validation of the i-th iteration has been evaluated.
Evaluated(i) ==
    /\ i \in DOMAIN validation_scenarios
    /\ \/ i < Len(validation_scenarios)
       \/ pc \in {"write", "for", "returned", "raised"}

\* C4: under a structural scenario with a well-formed rule document, a record
\* whose document does not parse is reported as a failure of that record, and
\* every other record that violates an assertion is still reported: the
\* iteration ends without an exception and with those reports written.
C4_UnparsableRecordIsReportedAlone ==
    \A i \in DOMAIN validation_scenarios :
       LET s == ScenarioOf(validation_scenarios[i])
           reported(id) ==
              \E b \in BatchesOf(i) :
                 \E row \in Range(core_recordvalidation[b].rows) :
                    row.record_id = id /\ row.validation_scenario_id = s.id
       IN (/\ OfEitherKind(i)
           /\ s.validation_type = "sch"
           /\ Files[s.filepath].wellformed
           /\ Evaluated(i)
           /\ \E id \in RecordIds : ~XmlParses(DocOf(id)))
          => /\ Completed(i)
             /\ \A id \in RecordIds :
                  (~XmlParses(DocOf(id)) \/ HasFailures(s, DocOf(id))) => reported(id)

-----------------------------------------------------------------------------
(* C7, C8: which results fail, and with which message                      *)

\* The check does not return the boolean True on this document.
NotBooleanTrue(f, doc) ==
    LET call == Call(f, [record_id |-> 0, document |-> doc])
    IN call.raised \/ call.value # PyTrue

\* C7: a check passes if and only if it returns the boolean True: in every
\* report written, fail_count is the number of checks that did anything else.
C7_OnlyBooleanTruePasses ==
    \A row \in WrittenRows :
       LET s == ScenarioOf(row.validation_scenario_id)
           funcs == ChecksOf(s)
       IN s.validation_type = "python" =>
            row.fail_count =
               Cardinality({ k \in DOMAIN funcs : NotBooleanTrue(funcs[k], DocOf(row.record_id)) })

\* C8: in every report written, a check counted as failed that returned a
\* value that is no boolean has that value among the messages, and one that
\* returned False has its declared default message there.
C8_MessageIsValueOrDefault ==
    \A row \in WrittenRows :
       LET s == ScenarioOf(row.validation_scenario_id)
           funcs == ChecksOf(s)
           doc == DocOf(row.record_id)
           messages == Range(row.results_payload.failed)
       IN s.validation_type = "python" =>
            \A k \in DOMAIN funcs :
               LET call == Call(funcs[k], [record_id |-> 0, document |-> doc])
               IN (CheckFails(funcs[k], doc) /\ ~call.raised) =>
                     IF call.value.t # "bool"
                     THEN JsonValue(call.value) \in messages
                     ELSE JsonValue(funcs[k].t_msg) \in messages

-----------------------------------------------------------------------------
(* C5, C6: one report per failing record, and what it counts               *)

\* The rows the i-th iteration wrote for this record under its own scenario.
ReportsOf(i, id) ==
    { << b, k >> \in UNION { {b} \X DOMAIN core_recordvalidation[b].rows : b \in BatchesOf(i) } :
        /\ core_recordvalidation[b].rows[k].record_id = id
        /\ core_recordvalidation[b].rows[k].validation_scenario_id = validation_scenarios[i] }

FailingChecks(funcs, doc) ==
    SelectSeq([k \in DOMAIN funcs |-> k], LAMBDA k : CheckFails(funcs[k], doc))

\* The entry is one this check can leave in failed.
EntryFrom(f, entry) ==
    IF f.outcome.raised
    THEN entry = JsonValue(PyStr(ExceptionMessage(f.name, f.outcome.text)))
    ELSE entry \in {JsonValue(f.t_msg), JsonValue(f.outcome.value)}

\* C6: every report of a procedural scenario has, for the k checks that fail
\* on the record, fail_count k and a failed list of length k, whose j-th entry
\* comes from the j-th failing check in evaluation order.
C6_FailCountAndOrder ==
    \A row \in WrittenRows :
       LET s == ScenarioOf(row.validation_scenario_id)
           funcs == ChecksOf(s)
           failing == FailingChecks(funcs, DocOf(row.record_id))
           failed == row.results_payload.failed
       IN s.validation_type = "python" =>
            /\ Len(failing) >= 1
            /\ row.fail_count = Len(failing)
            /\ row.results_payload.fail_count = Len(failing)
            /\ Len(failed) = Len(failing)
            /\ \A j \in DOMAIN failed : EntryFrom(funcs[failing[j]], failed[j])

\* A report of a procedural scenario with several failures is written.
C6_Witness ==
    \E row \in WrittenRows :
       /\ ScenarioOf(row.validation_scenario_id).validation_type = "python"
       /\ row.fail_count >= 2
       /\ Len(FailingChecks(ChecksOf(ScenarioOf(row.validation_scenario_id)),
                            DocOf(row.record_id))) >= 2

-----------------------------------------------------------------------------
(* C9, C10: partitions and the write                                       *)

\* validation_fails_rdd as the validator of a scenario of either kind builds it.
RddOf(s) ==
    IF s.validation_type = "sch"
    THEN SchRdd(s.id, s.filepath)
    ELSE PythonRdd(s.id, ChecksOf(s))

\* The reports of the record set run through the validator as one partition.
Unpartitioned(s) == Compute(RddOf(s), AllRows(records_df))

\* C9: for a scenario of either kind that loads, the partitioned validation
\* of the record set fails if and only if the validation of the whole record
\* set as a single partition fails; when it does not, the reports of the
\* partitions together are the reports of the single partition, and a
\* completed validation has written exactly these.
C9_SplitInvariance ==
    \A i \in DOMAIN validation_scenarios :
       LET s == ScenarioOf(validation_scenarios[i])
           whole == Unpartitioned(s)
           tasks == Tasks(RddOf(s), records_df)
           fails == \E p \in DOMAIN tasks : tasks[p].exc # NoExc
       IN (OfEitherKind(i) /\ (s.validation_type = "python" => s.payload.loadable)) =>
             /\ fails <=> whole.exc # NoExc
             /\ ~fails => UNION { Range(tasks[p].rows) : p \in DOMAIN tasks } = Range(whole.rows)
             /\ Completed(i) =>
                  /\ ~fails
                  /\ UNION { Range(core_recordvalidation[b].rows) : b \in BatchesOf(i) }
                        = Range(whole.rows)

\* A validation over two partitions, each with a failing record, is written.
C9_Witness ==
    \E i \in DOMAIN validation_scenarios :
       /\ Completed(i) /\ OfEitherKind(i)
       /\ Len(records_df) = 2
       /\ \A p \in DOMAIN records_df :
            \E k \in DOMAIN records_df[p] :
               ReportsOf(i, records_df[p][k].id) # {}

\* C10: for every scenario of either kind whose iteration has ended, the table
\* is written if and only if the scenario has a report, and then by one write
\* holding all its reports; no iteration writes twice or writes nothing.
C10_WrittenOnceIffReports ==
    /\ \A i \in DOMAIN validation_scenarios :
         (Completed(i) /\ OfEitherKind(i)) =>
            LET s == ScenarioOf(validation_scenarios[i])
                reports == UNION { Range(Compute(RddOf(s), records_df[p]).rows)
                                   : p \in DOMAIN records_df }
            IN IF reports = {}
               THEN BatchesOf(i) = {}
               ELSE /\ Cardinality(BatchesOf(i)) = 1
                    /\ \A b \in BatchesOf(i) :
                         /\ core_recordvalidation[b].complete
                         /\ Range(core_recordvalidation[b].rows) = reports
    /\ \A i \in DOMAIN validation_scenarios : Cardinality(BatchesOf(i)) <= 1
    /\ \A b \in DOMAIN core_recordvalidation : core_recordvalidation[b].rows # << >>

\* A run has ended one scenario with its write and another, in which every
\* record passes, without one.
C10_Witness ==
    \E i1, i2 \in DOMAIN validation_scenarios :
       /\ Completed(i1) /\ OfEitherKind(i1) /\ BatchesOf(i1) # {}
       /\ Completed(i2) /\ OfEitherKind(i2) /\ BatchesOf(i2) = {}
       /\ RecordIds # {}

-----------------------------------------------------------------------------
(* C11: a requested id that no stored scenario has                         *)

\* The id of the current iteration.
CurrentId == validation_scenarios[Len(validation_scenarios)]

\* C11: when the id of an iteration resolves to no stored scenario, only that
\* iteration is abandoned: the run raises nothing and goes on to the next
\* requested id.
C11_UnknownIdAbandonsOnlyThatScenario ==
    [][(pc = "get" /\ ~Stored(CurrentId)) => (pc' = "for" /\ exception' = NoExc)]_vars

-----------------------------------------------------------------------------
(* C12: the states of a scenario within a run                              *)

\* The places of an iteration: fetching and compiling the scenario ("get",
\* "branch"), validating and aggregating ("isEmpty"), submitting ("write").
InIteration == {"get", "branch", "isEmpty", "write"}

\* C12: a step of an iteration leads to the next place of that iteration or
\* ends it in a terminal state, the loop standing at the next requested id and
\* nothing raised: no scenario ends the run for those requested after it.
C12_EveryScenarioEndsInATerminalState ==
    [][(pc \in InIteration) =>
          (/\ exception' = NoExc
           /\ \/ pc = "get" /\ pc' \in {"branch", "for"}
              \/ pc = "branch" /\ pc' \in {"isEmpty", "for"}
              \/ pc = "isEmpty" /\ pc' \in {"write", "for"}
              \/ pc = "write" /\ pc' = "for")]_vars

-----------------------------------------------------------------------------
(* C13: refreshing the database connection                                 *)

\* C13: whenever an iteration is about to fetch its scenario or to write to
\* the table, the connection has been refreshed once for every iteration begun
\* so far: a refresh lies between the work of one scenario and the next.
C13_RefreshedBeforeEachScenario ==
    (pc \in {"get", "write"}) => refreshes >= Len(validation_scenarios)

-----------------------------------------------------------------------------
(* C14: a write the table refuses                                          *)

\* C14: a write that does not succeed raises its exception to the caller of
\* the run, and the run takes no step after it: the write of an iteration is
\* attempted once, and a failed one is never tried again.
C14_FailedWriteIsRaisedOnce ==
    [][/\ pc # "raised"
       /\ (pc = "write") =>
             \/ /\ pc' = "for"
                /\ exception' = NoExc
                /\ Len(core_recordvalidation') = Len(core_recordvalidation) + 1
                /\ core_recordvalidation'[Len(core_recordvalidation')].complete
             \/ /\ pc' = "raised"
                /\ exception' # NoExc]_vars

\* The table refused the write of a scenario none of whose tasks raised, after
\* taking one of its partitions; the run has ended with that exception.
C14_Witness ==
    /\ pc = "raised"
    /\ exception = SinkError
    /\ validation_fails_rdd # Unbound
    /\ \A p \in DOMAIN records_df : Compute(validation_fails_rdd, records_df[p]).exc = NoExc
    /\ \E b \in BatchesOf(Len(validation_scenarios)) : ~core_recordvalidation[b].complete

-----------------------------------------------------------------------------
(* C15: what the run writes                                                *)

\* seq is a prefix of longer.
IsPrefix(seq, longer) ==
    /\ Len(seq) <= Len(longer)
    /\ SubSeq(longer, 1, Len(seq)) = seq

\* C15: every step leaves the record set as it is, and leaves the table as it
\* is or appends one batch of rows behind those it holds: no row once written
\* is changed or removed, by the same scenario or by a later one.
C15_TableOnlyAppendedRecordsUnchanged ==
    [][/\ records_df' = records_df
       /\ IsPrefix(core_recordvalidation, core_recordvalidation')
       /\ Len(core_recordvalidation') <= Len(core_recordvalidation) + 1
       /\ (core_recordvalidation' # core_recordvalidation) => pc = "write"]_vars

\* A second scenario has written its rows behind those of the first and those
\* of an earlier run, which are still in the table.
C15_Witness ==
    /\ Len(core_recordvalidation) = 3
    /\ core_recordvalidation[1].iteration = 0
    /\ core_recordvalidation[2].iteration = 1
    /\ core_recordvalidation[3].iteration = 2
    /\ core_recordvalidation[2].complete
    /\ core_recordvalidation[3].complete

-----------------------------------------------------------------------------
(* C16: the order of the reports of a partition                            *)

\* The place of the record with this id in the partition.
PlaceIn(pt, id) == CHOOSE k \in DOMAIN pt : pt[k].id = id

\* The rows are in the order their records have in the partition.
InInputOrder(rows, pt) ==
    \A k1, k2 \in DOMAIN rows :
       (k1 < k2) =>
          /\ \E k \in DOMAIN pt : pt[k].id = rows[k1].record_id
          /\ \E k \in DOMAIN pt : pt[k].id = rows[k2].record_id
          /\ PlaceIn(pt, rows[k1].record_id) < PlaceIn(pt, rows[k2].record_id)

\* The rows of the batch that report records of this partition, in the order
\* the batch holds them.
RowsOfPartition(batch, pt) ==
    SelectSeq(batch.rows, LAMBDA row : \E k \in DOMAIN pt : pt[k].id = row.record_id)

\* C16: the reports a validation emits for one partition are in the input
\* order of its records, for each scenario of either kind and each partition
\* of the record set; and so are the rows of a partition in every batch a run
\* has written.
C16_ReportsInInputOrder ==
    /\ \A s \in ValidationScenarios :
         (s.validation_type \in {"sch", "python"} /\ (s.validation_type = "python" => s.payload.loadable)) =>
            \A p \in DOMAIN records_df :
               InInputOrder(Compute(RddOf(s), records_df[p]).rows, records_df[p])
    /\ \A b \in DOMAIN core_recordvalidation :
         (core_recordvalidation[b].iteration > 0) =>
            \A p \in DOMAIN records_df :
               InInputOrder(RowsOfPartition(core_recordvalidation[b], records_df[p]),
                            records_df[p])

\* A structural scenario has written the reports of two failing records of one
\* partition.
C16_Witness ==
    \E b \in DOMAIN core_recordvalidation :
       /\ core_recordvalidation[b].iteration > 0
       /\ core_recordvalidation[b].rows[1].validation_scenario_id = 1
       /\ \E p \in DOMAIN records_df :
             Len(RowsOfPartition(core_recordvalidation[b], records_df[p])) = 2

-----------------------------------------------------------------------------
(* C17: the report of a record under a structural scenario                 *)

\* The messages of the assertions of the rule document the document fails, in
\* the order of the rule document, as results_payload holds them.
FailedMessages(s, doc) ==
    LET asserts == Files[s.filepath].asserts
        fails == SelectSeq(asserts, LAMBDA a : doc \in a.fails_on)
    IN [k \in DOMAIN fails |-> [j |-> "string", n |-> 0, s |-> fails[k].text]]

\* The row reports what its own record fails under the structural scenario.
ReportsOwnFailures(row, s, doc) ==
    /\ Len(FailedMessages(s, doc)) >= 1
    /\ row.fail_count = Len(FailedMessages(s, doc))
    /\ row.results_payload.fail_count = Len(FailedMessages(s, doc))
    /\ row.results_payload.failed = FailedMessages(s, doc)

\* The structural scenarios whose rule document parses.
StructuralScenarios ==
    { s \in ValidationScenarios : s.validation_type = "sch" /\ Files[s.filepath].wellformed }

\* C17: under a structural scenario the report of a record that fails n
\* assertions (n >= 1) has fail_count n and as failed the n messages of those
\* assertions, in the validator's order, whatever the records validated before
\* it in the partition failed; so for the rows each task computes and for
\* every row a run has written.
C17_StructuralReportHoldsOwnFailures ==
    /\ \A s \in StructuralScenarios :
         \A p \in DOMAIN records_df :
            LET task == Compute(RddOf(s), records_df[p])
            IN \A k \in DOMAIN task.rows :
                  ReportsOwnFailures(task.rows[k], s, DocOf(task.rows[k].record_id))
    /\ \A row \in WrittenRows :
         \A s \in StructuralScenarios :
            (row.validation_scenario_id = s.id) =>
               ReportsOwnFailures(row, s, DocOf(row.record_id))

\* A written batch holds the report of a record failing one assertion, with
\* that one message, validated in its partition right behind a record failing
\* two, whose report holds both.
C17_Witness ==
    \E p \in DOMAIN records_df :
       /\ Len(records_df[p]) = 2
       /\ records_df[p][1].document = "<bad/>"
       /\ records_df[p][2].document = "<half/>"
       /\ \E r1, r2 \in WrittenRows :
             /\ r1.validation_scenario_id = 1
             /\ r2.validation_scenario_id = 1
             /\ r1.record_id = records_df[p][1].id
             /\ r2.record_id = records_df[p][2].id
             /\ r1.fail_count = 2
             /\ r1.results_payload.failed[1].s = "A"
             /\ r1.results_payload.failed[2].s = "B"
             /\ r2.fail_count = 1
             /\ r2.results_payload.failed[1].s = "B"

-----------------------------------------------------------------------------
(* C18: a check that declares only the record argument                     *)

\* The scenario is procedural, loads, and one of its checks declares no
\* test_message parameter.
HasCheckWithoutMessage(s) ==
    /\ s.validation_type = "python"
    /\ s.payload.loadable
    /\ \E k \in DOMAIN ChecksOf(s) : ~ChecksOf(s)[k].has_msg

\* C18: a check that declares only the record argument does not abort the
\* validation: an iteration whose scenario has such a check never ends the run
\* with an exception of the validation itself (the table refusing the write is
\* the one exception left to it).
C18_CheckWithoutMessageDoesNotAbort ==
    \A i \in DOMAIN validation_scenarios :
       (/\ Stored(validation_scenarios[i])
        /\ HasCheckWithoutMessage(ScenarioOf(validation_scenarios[i]))
        /\ i = Len(validation_scenarios))
          => exception \in {NoExc, SinkError}

-----------------------------------------------------------------------------
(* C19: which members of a payload are checks                              *)

\* The name begins with "test", whatever the case of its letters.
BeginsWithTest(nm) ==
    /\ Len(nm) >= 4
    /\ SubSeq(nm, 1, 1) \in {"t", "T"}
    /\ SubSeq(nm, 2, 2) \in {"e", "E"}
    /\ SubSeq(nm, 3, 3) \in {"s", "S"}
    /\ SubSeq(nm, 4, 4) \in {"t", "T"}

\* The members of the payload that are functions with such a name.
Eligible(payload) ==
    { payload.members[k] : k \in { j \in DOMAIN payload.members :
                                      /\ payload.members[j].isfunction
                                      /\ BeginsWithTest(payload.members[j].name) } }

\* The procedural scenarios whose payload loads.
ProceduralScenarios ==
    { s \in ValidationScenarios : s.validation_type = "python" /\ s.payload.loadable }

\* C19: the checks of a loaded payload are exactly its members that are
\* functions whose name begins with "test" in any case, each once; the
\* validation a run has built for a procedural scenario holds exactly those;
\* and no report written holds the trace of a member that is none of them.
C19_ChecksAreTheTestFunctions ==
    /\ \A s \in ProceduralScenarios :
         /\ Range(ChecksOf(s)) = Eligible(s.payload)
         /\ Len(ChecksOf(s)) = Cardinality(Eligible(s.payload))
    /\ (validation_fails_rdd.op = "python") =>
          Range(validation_fails_rdd.pyvs_funcs) =
             Eligible(ScenarioOf(validation_fails_rdd.vs_id).payload)
    /\ \A row \in WrittenRows :
         \A s \in ProceduralScenarios :
            (row.validation_scenario_id = s.id) =>
               \A m \in Range(s.payload.members) \ Eligible(s.payload) :
                  \A k \in DOMAIN row.results_payload.failed :
                     (m.outcome.raised /\ row.results_payload.failed[k].j = "string")
                        => ~Contains(row.results_payload.failed[k].s, m.outcome.text)

\* A run has written the report of a record under the payload that holds
\* TEST_upper, helper, attest and the attribute test_var: the report holds the
\* failure of TEST_upper.
C19_Witness ==
    \E row \in WrittenRows :
       /\ row.validation_scenario_id = 3
       /\ \E k \in DOMAIN row.results_payload.failed :
             row.results_payload.failed[k] = [j |-> "string", n |-> 0, s |-> "upper check failed"]

-----------------------------------------------------------------------------
(* C20: the shape of every report                                          *)

\* The row says not valid, counts one failure or more, and its two counts are
\* the length of its list of messages.
WellFormedReport(row) ==
    /\ row.valid = 0
    /\ row.fail_count >= 1
    /\ row.results_payload.fail_count = row.fail_count
    /\ Len(row.results_payload.failed) = row.fail_count

\* C20: every report either engine emits, for each scenario and each partition
\* of the record set, and every row a run has written, is well formed.
C20_EveryReportIsWellFormed ==
    /\ \A s \in StructuralScenarios \cup ProceduralScenarios :
         \A p \in DOMAIN records_df :
            LET task == Compute(RddOf(s), records_df[p])
            IN \A k \in DOMAIN task.rows : WellFormedReport(task.rows[k])
    /\ \A row \in WrittenRows : WellFormedReport(row)

\* One run has written a report of the structural engine with two failures and
\* one of the procedural engine with more.
C20_Witness ==
    \E r1, r2 \in WrittenRows :
       /\ r1.validation_scenario_id = 1
       /\ r1.fail_count = 2
       /\ r2.validation_scenario_id = 3
       /\ r2.fail_count > 2

-----------------------------------------------------------------------------
(* C21: whose reports an iteration writes                                  *)

\* C21: every row a run has written carries the id of the scenario of the
\* iteration that wrote it, and no row of the run is in the table twice: the
\* reports of an earlier scenario are not written again by a later iteration.
C21_IterationWritesItsOwnReports ==
    /\ \A b \in DOMAIN core_recordvalidation :
         (core_recordvalidation[b].iteration > 0) =>
            \A k \in DOMAIN core_recordvalidation[b].rows :
               core_recordvalidation[b].rows[k].validation_scenario_id =
                  validation_scenarios[core_recordvalidation[b].iteration]
    /\ \A b1, b2 \in DOMAIN core_recordvalidation :
         (/\ b1 < b2
          /\ core_recordvalidation[b1].iteration > 0
          /\ core_recordvalidation[b1].iteration < core_recordvalidation[b2].iteration
          /\ validation_scenarios[core_recordvalidation[b1].iteration] #
                validation_scenarios[core_recordvalidation[b2].iteration])
            => Range(core_recordvalidation[b1].rows) \cap Range(core_recordvalidation[b2].rows) = {}

-----------------------------------------------------------------------------
(* C22: how often the validator of a structural scenario is constructed    *)

\* How many entries of the log are this event.
CountOf(log, event) == Cardinality({ k \in DOMAIN log : log[k] = event })

\* The task parsed the rule document and constructed the validator once, both
\* before it took a row.
BuiltOnceBeforeRows(log) ==
    /\ CountOf(log, "parse") = 1
    /\ CountOf(log, "Schematron") = 1
    /\ Len(log) >= 2
    /\ log[1] = "parse"
    /\ log[2] = "Schematron"

-----------------------------------------------------------------------------
(* Livy sessions and the jobs sent to them (src/core/models.py).           *)

MaxSessions == 2
MaxPolls == 2

\* The users: one superuser and one who is not.
Users == {"admin", "alice"}

IsSuperuser(user) == user = "admin"

\* The states Livy gives a session; "gone" stands for a session the server no
\* longer has (status code 404).
SessionStates == {"starting", "idle", "busy", "dead"}

\* The session is on the server and has not ended.
Live(session_id) ==
    /\ session_id \in DOMAIN livy_server
    /\ livy_server[session_id] \in {"starting", "idle", "busy"}

\* A row of LivySession
LivySession(session_id, status, user, active) ==
    [session_id |-> session_id, status |-> status, user |-> user, active |-> active]

\* LivySession.objects.filter(user=user, status__in=['starting','running','idle'])
UserSessions(user) ==
    { r \in DOMAIN core_livysession :
        /\ core_livysession[r].user = user
        /\ core_livysession[r].status \in {"starting", "running", "idle"} }

\* LivySession.objects.filter(user=self, active=True)
ActiveLivySessions(user) ==
    { r \in DOMAIN core_livysession :
        /\ core_livysession[r].user = user
        /\ core_livysession[r].active }

\* What active_livy_session() returns: the row if there is one, False if there
\* is none, and None (no return statement is reached) if there are several.
PyFalseSession == [kind |-> "False", row |-> 0]
PyNoneSession == [kind |-> "None", row |-> 0]
SessionRow(r) == [kind |-> "LivySession", row |-> r]

ActiveLivySession(user) ==
    IF Cardinality(ActiveLivySessions(user)) = 1
    THEN SessionRow(CHOOSE r \in ActiveLivySessions(user) : TRUE)
    ELSE IF Cardinality(ActiveLivySessions(user)) = 0
         THEN PyFalseSession
         ELSE PyNoneSession

\* What the tables and the server may hold when the application is looked at:
\* nothing, or sessions of alice that are marked active.
InitialSessions ==
    { [rows |-> << >>, server |-> << >>],
      [rows |-> << LivySession(1, "idle", "alice", TRUE) >>, server |-> << "idle" >>],
      [rows |-> << LivySession(1, "idle", "alice", TRUE),
                   LivySession(2, "idle", "alice", TRUE) >>,
       server |-> << "idle", "idle" >>] }

LivyInit ==
    /\ pc = "start"
    /\ records_df = << << >> >>
    /\ validation_scenarios = << >>
    /\ vs = NoScenario
    /\ validation_fails_rdd = Unbound
    /\ core_recordvalidation = << >>
    /\ exception = NoExc
    /\ refreshes = 0
    /\ \E initial \in InitialSessions :
          /\ core_livysession = initial.rows
          /\ livy_server = initial.server
    /\ deleted = {}
    /\ user_session = NoJob
    /\ statement = "none"
    /\ livy_pc = "idle"
    /\ polls = 0
    /\ last_op = NoOp

\* The Livy server moves a session on: it comes up, takes and ends work, dies.
LivyStep ==
    /\ \E session_id \in DOMAIN livy_server :
          /\ Live(session_id)
          /\ \E state \in SessionStates :
                /\ \/ livy_server[session_id] = "starting" /\ state \in {"idle", "dead"}
                   \/ livy_server[session_id] = "idle" /\ state \in {"busy", "dead"}
                   \/ livy_server[session_id] = "busy" /\ state \in {"idle", "dead"}
                /\ livy_server' = [livy_server EXCEPT ![session_id] = state]
    /\ UNCHANGED << core_livysession, deleted, user_session, statement, livy_pc,
                    polls, last_op >>
    /\ UNCHANGED run_vars

\* The status the row gets from refresh_from_livy(): 'gone' on 404, else the
\* state of the response.
RefreshedStatus(server, session_id) ==
    IF session_id \notin DOMAIN server \/ server[session_id] = "gone"
    THEN "gone"
    ELSE server[session_id]

\* LivySession.refresh_from_livy() of one row
RefreshFromLivy ==
    /\ \E r \in DOMAIN core_livysession :
          core_livysession' =
             [core_livysession EXCEPT
                ![r].status = RefreshedStatus(livy_server, core_livysession[r].session_id)]
    /\ UNCHANGED << livy_server, deleted, user_session, statement, livy_pc, polls,
                    last_op >>
    /\ UNCHANGED run_vars

\* user_login_handle_livy_sessions(sender, user): a user who is no superuser
\* and has no session of status starting, running or idle gets a new row,
\* which create_livy_session fills from the session it has Livy create.
UserLoginHandleLivySessions ==
    /\ \E user \in Users :
          IF IsSuperuser(user) \/ UserSessions(user) # {}
          THEN /\ last_op' = [op |-> "login", user |-> user, created |-> FALSE]
               /\ UNCHANGED << core_livysession, livy_server >>
          ELSE /\ Len(livy_server) < MaxSessions
               /\ livy_server' = Append(livy_server, "starting")
               /\ core_livysession' =
                     Append(core_livysession,
                            LivySession(Len(livy_server) + 1, "starting", user, FALSE))
               /\ last_op' = [op |-> "login", user |-> user, created |-> TRUE]
    /\ UNCHANGED << deleted, user_session, statement, livy_pc, polls >>
    /\ UNCHANGED run_vars

\* The server after DELETE sessions/<id> for each of these rows.
Stopped(rows) ==
    [session_id \in DOMAIN livy_server |->
        IF \E r \in rows : core_livysession[r].session_id = session_id
        THEN "gone"
        ELSE livy_server[session_id]]

\* user_logout_handle_livy_sessions(sender, user): stop_session() for each row
\* of the user with status starting, running or idle: the DELETE request, then
\* refresh_from_livy().
UserLogoutHandleLivySessions ==
    /\ \E user \in Users :
          LET user_sessions == UserSessions(user)
          IN /\ deleted' = deleted \cup { core_livysession[r].session_id : r \in user_sessions }
             /\ livy_server' = Stopped(user_sessions)
             /\ core_livysession' =
                   [r \in DOMAIN core_livysession |->
                      IF r \in user_sessions
                      THEN [core_livysession[r] EXCEPT
                              !.status = RefreshedStatus(Stopped(user_sessions),
                                                         core_livysession[r].session_id)]
                      ELSE core_livysession[r]]
             /\ last_op' = [op |-> "logout", user |-> user, created |-> FALSE]
    /\ UNCHANGED << user_session, statement, livy_pc, polls >>
    /\ UNCHANGED run_vars

\* CombineJob(user): self.user_session = self._get_active_user_session()
CombineJob ==
    /\ livy_pc = "idle"
    /\ \E user \in Users :
          /\ user_session' = ActiveLivySession(user)
          /\ last_op' = [op |-> "CombineJob", user |-> user, created |-> FALSE]
    /\ UNCHANGED << core_livysession, livy_server, deleted, statement, livy_pc, polls >>
    /\ UNCHANGED run_vars

\* count_records() up to the loop: LivyClient().submit_job(
\* self.user_session.session_id, job_code). False and None have no
\* session_id; a session no longer live takes no statement.
SubmitJob ==
    /\ livy_pc = "idle"
    /\ user_session # NoJob
    /\ IF user_session.kind # "LivySession"
       THEN /\ livy_pc' = "raised"
            /\ UNCHANGED statement
       ELSE IF Live(core_livysession[user_session.row].session_id)
            THEN /\ statement' = "waiting"
                 /\ livy_pc' = "poll"
            ELSE /\ livy_pc' = "raised"
                 /\ UNCHANGED statement
    /\ UNCHANGED << core_livysession, livy_server, deleted, user_session, polls,
                    last_op >>
    /\ UNCHANGED run_vars

\* The states of a statement that Livy does not leave again.
FinalStates == {"available", "error", "cancelled"}

\* Livy moves the statement on.
StatementStep ==
    /\ \/ statement = "waiting" /\ statement' \in {"running", "cancelling"}
       \/ statement = "running" /\ statement' \in {"available", "error", "cancelling"}
       \/ statement = "cancelling" /\ statement' = "cancelled"
    /\ UNCHANGED << core_livysession, livy_server, deleted, user_session, livy_pc,
                    polls, last_op >>
    /\ UNCHANGED run_vars

\* One turn of `while True`: the GET of the statement; 'available' returns the
\* count, every other state goes to time.sleep(.25).
Poll ==
    /\ livy_pc = "poll"
    /\ IF statement = "available"
       THEN /\ livy_pc' = "returned"
            /\ UNCHANGED polls
       ELSE /\ polls < MaxPolls
            /\ livy_pc' = "sleep"
            /\ polls' = IF statement \in FinalStates THEN polls + 1 ELSE polls
    /\ UNCHANGED << core_livysession, livy_server, deleted, user_session, statement,
                    last_op >>
    /\ UNCHANGED run_vars

\* time.sleep(.25) is over
Sleep ==
    /\ livy_pc = "sleep"
    /\ livy_pc' = "poll"
    /\ UNCHANGED << core_livysession, livy_server, deleted, user_session, statement,
                    polls, last_op >>
    /\ UNCHANGED run_vars

LivyNext ==
    \/ LivyStep
    \/ RefreshFromLivy
    \/ UserLoginHandleLivySessions
    \/ UserLogoutHandleLivySessions
    \/ CombineJob
    \/ SubmitJob
    \/ StatementStep
    \/ Poll
    \/ Sleep

LivySpec == LivyInit /\ [][LivyNext]_vars

-----------------------------------------------------------------------------
(* C23: what logging out stops                                             *)

\* C23: when the handler that ran last is the logout of a user, a DELETE
\* request has been sent for every session of that user that is live on the
\* Livy server, whatever status its row holds.
C23_LogoutStopsEveryLiveSession ==
    (last_op.op = "logout") =>
       \A r \in DOMAIN core_livysession :
          (/\ core_livysession[r].user = last_op.user
           /\ Live(core_livysession[r].session_id))
             => core_livysession[r].session_id \in deleted

-----------------------------------------------------------------------------
(* C24: the session of a CombineJob                                        *)

\* C24: a CombineJob made for a user has as user_session a LivySession row of
\* that user: the one marked active if there is one; and so right after the
\* login of a user who is no superuser has created a session.
C24_CombineJobHasASession ==
    [][(last_op'.op = "CombineJob" /\ << user_session, last_op >>' # << user_session, last_op >>) =>
          /\ user_session'.kind = "LivySession"
          /\ user_session'.row \in DOMAIN core_livysession'
          /\ core_livysession'[user_session'.row].user = last_op'.user
          /\ (ActiveLivySessions(last_op'.user) # {}) =>
                user_session'.row \in ActiveLivySessions(last_op'.user)]_vars

-----------------------------------------------------------------------------
(* C25: the polling loop of count_records                                  *)

\* C25: a turn of the polling loop that finds the statement in a final state
\* ends the loop: count_records returns (the count, when the state is
\* 'available') or raises, and does not go to sleep for another turn.
C25_PollingStopsOnAFinalState ==
    [][(/\ livy_pc = "poll"
        /\ livy_pc' # "poll"
        /\ statement \in FinalStates) =>
          /\ livy_pc' \in {"returned", "raised"}
          /\ (statement = "available") => livy_pc' = "returned"]_vars

====
